---- MODULE Spec2Model ----
(***************************************************************************)
(* State-machine model of src/main.py: the bulletin poll / dedup / fan-out *)
(* plugin.  One coroutine runs the scheduled cycle                         *)
(* (timed_check_scheduler -> execute_bulletin_push -> get_latest_bulletin),*)
(* one runs the manual trigger (manual_check -> get_latest_bulletin), and  *)
(* the toggle commands enable_push / disable_push run to completion.       *)
(* An action is the code between two awaits.                               *)
(*                                                                         *)
(* Abstractions: the feed is static during a run; the rendered chain is    *)
(* reduced to the cid of the item it shows;  storage (peewee) operations   *)
(* succeed or fail only as their own logic says (unique constraint) while  *)
(* storage is "sound"; with "faulty" storage one write of a run may raise. *)
(*                                                                         *)
(* The module never imports json, yet load_push_groups and                 *)
(* save_push_groups call json.load and json.dump: both raise NameError,    *)
(* which their `except Exception` turns into {} and False.  The model      *)
(* keeps this behaviour (JsonBound), so the list of enabled groups is      *)
(* always empty.  adminEnabled records what the admins asked for.  The     *)
(* fan-out of lines 290-303 (SendResponse, WaitReturn) is part of Next but *)
(* is never reached for that reason.                                       *)
(*                                                                         *)
(* The timer of @bot.timed_task is the framework's.  Tick is a tick that   *)
(* finds no cycle under way; TickDuringCycle (SpecOverlap) is a tick that  *)
(* comes during a cycle; TickOn (SpecLive) is the tick of a run without    *)
(* end, with time kept relative to the latest tick.                        *)
(***************************************************************************)
EXTENDS Integers, Sequences, FiniteSets, TLC

\* ------------------------------------------------------------- bounds
MaxFeedLen == 2      \* longest feed list of the system specification
MaxSelectLen == 3    \* longest feed list of the selector specification
MaxTicks == 3        \* scheduler ticks per run
MaxManual == 1       \* manual_check invocations per run
MaxToggles == 2      \* enable_push / disable_push commands per run

\* -------------------------------------------------- program constants
TickPeriod == 60         \* @bot.timed_task(each=60)
DefaultInterval == 120   \* bot.get_config('checkInterval', 120) / fallback

\* ---------------------------------------------------------- input sets
Titles == { <<"b", "c", "d">>, <<"d", "b">> }
Times == {100, 200, 300}
SystemTimes == {100, 200}
KeywordLists ==
  { << >>,
    << <<"c", "d">> >>,
    << <<"a", "b">> >>,
    << <<"d", "b">>, <<"a", "b">> >>,
    << <<"d">> >> }
SystemKeywordLists == { << >>, << <<"c", "d">> >> }
\* values of the setting checkInterval: `present` is whether the
\* configuration holds the key, `numeric` whether int() accepts the value
CheckIntervals ==
  { [present |-> TRUE, numeric |-> TRUE, value |-> 60],
    [present |-> TRUE, numeric |-> TRUE, value |-> 120] }
NonNumericInterval == [present |-> TRUE, numeric |-> FALSE, value |-> 0]   \* "abc"
MissingInterval == [present |-> FALSE, numeric |-> FALSE, value |-> 0]
ConfiguredIntervals == CheckIntervals \cup {NonNumericInterval, MissingInterval}
Channels == {"g1", "g2"}
Bots == {"bot1"}
AvailableBots == {"bot1"}
Procs == {"sched", "manual"}
\* the coroutines of timed_check_scheduler: the invocation of a tick, and a
\* second invocation that a tick starts while the first is still suspended
Scheds == {"sched", "sched2"}
Coroutines == Procs \cup Scheds

VARIABLES
  feed,                  \* the remote bulletinList, a sequence of list items
  keywords,              \* bot.get_config('keywords')
  enablePush,            \* bot.get_config('enablePush')
  checkInterval,         \* the setting checkInterval of the configuration
  now,                   \* time.time()
  last_check_timestamp,  \* module global, line 130
  cycle,                 \* number of execute_bulletin_push calls started
  pc,                    \* per coroutine: the await it is suspended at
  cur,                   \* per coroutine: position in the sorted list (loop variable)
  ledger,                \* table BulletinRecord, in insertion order
  pushGroupsFile,        \* push_groups.json on disk
  adminEnabled,          \* history: keys whose last admin toggle was "enable"
  dispatches,            \* history: one entry per run of the fan-out part
  lastReply,             \* the last message a command handler sent
  manualData,            \* channel of the Message served by manual_check
  manualRuns,            \* number of manual_check invocations so far
  toggles,               \* number of toggle commands so far
  inflight,              \* per scheduler coroutine: the send tasks not yet done
  storage,               \* "sound", or "faulty": one write of the table may raise
  raised                 \* an exception has left timed_check_scheduler

vars == << feed, keywords, enablePush, checkInterval, now,
           last_check_timestamp, cycle, pc, cur, ledger, pushGroupsFile,
           adminEnabled, dispatches, lastReply, manualData, manualRuns,
           toggles, inflight, storage, raised >>

\* ------------------------------------------------------------ helpers
RECURSIVE SeqsUpTo(_, _)
SeqsUpTo(S, n) ==
  IF n = 0 THEN { << >> }
  ELSE LET shorter == SeqsUpTo(S, n - 1)
       IN shorter \cup { Append(s, x) : s \in { t \in shorter : Len(t) = n - 1 }, x \in S }

\* BulletinListItem (lines 77-82): cid is the position in the feed, so ids
\* are unique per announcement.
MkFeed(attrs) ==
  [ i \in 1..Len(attrs) |->
      [cid |-> i, title |-> attrs[i][1], updated_at |-> attrs[i][2]] ]

FeedsOver(times, n) == { MkFeed(a) : a \in SeqsUpTo(Titles \X times, n) }

Cids(f) == { f[i].cid : i \in 1..Len(f) }

NoReply == [to |-> "", kind |-> "none", cid |-> 0]
NoChannel == ""
Messages == [channel_id : Channels, appid : Bots, is_admin : BOOLEAN]

\* time.time() when the plugin is loaded: far beyond any interval, so the
\* first tick always finds the interval elapsed (last_check_timestamp = 0.0).
StartTime == 2 * TickPeriod

\* ------------------------------------------------ push_groups.json store
\* Lines 1-13 import os, time, asyncio, base64, aiohttp, typing and the
\* framework names; no statement binds the name `json`.  json.load (line 27)
\* and json.dump (line 37) therefore raise NameError, which the handlers
\* `except Exception` of lines 28 and 39 catch.
JsonBound == FALSE

NoFile == [exists |-> FALSE, valid |-> FALSE, rows |-> {}]
TruncatedFile == [exists |-> TRUE, valid |-> FALSE, rows |-> {}]

\* lines 22-31: {} when the file is absent or reading it raised
load_push_groups ==
  IF pushGroupsFile.exists /\ JsonBound /\ pushGroupsFile.valid
  THEN pushGroupsFile.rows
  ELSE {}

\* lines 33-41: open(.., 'w') truncates the file, then json.dump writes it;
\* when json.dump raises, the file stays truncated and the result is False
save_push_groups(data) ==
  IF JsonBound
  THEN [file |-> [exists |-> TRUE, valid |-> TRUE, rows |-> data], ok |-> TRUE]
  ELSE [file |-> TruncatedFile, ok |-> FALSE]

SameKey(r, channel_id, bot_id) == r.channel_id = channel_id /\ r.bot_id = bot_id

\* lines 43-53
add_push_group(channel_id, bot_id) ==
  LET data == load_push_groups
      row == [channel_id |-> channel_id, bot_id |-> bot_id,
              enabled |-> TRUE, added_time |-> now]
  IN save_push_groups({ r \in data : ~SameKey(r, channel_id, bot_id) } \cup {row})

\* lines 55-62
remove_push_group(channel_id, bot_id) ==
  LET data == load_push_groups
  IN IF \E r \in data : SameKey(r, channel_id, bot_id)
     THEN save_push_groups(
            { IF SameKey(r, channel_id, bot_id) THEN [r EXCEPT !.enabled = FALSE] ELSE r
              : r \in data })
     ELSE [file |-> pushGroupsFile, ok |-> TRUE]

\* lines 64-74
get_enabled_groups ==
  { <<r.channel_id, r.bot_id>> : r \in { q \in load_push_groups : q.enabled } }

\* ------------------------------------------------------ BulletinRecord
\* BulletinRecord.get_or_none(cid=..), lines 170 and 278
\* variant: the lookup finds no record
get_or_none_never(cid) == FALSE

get_or_none(cid) == \E i \in 1..Len(ledger) : ledger[i].cid = cid

\* BulletinRecord.create(cid=.., record_time=int(time.time())), lines 287 and
\* 303; cid is CharField(unique=True) (line 109): a second row with the same
\* cid is refused (IntegrityError) and the table is left as it was.
\* variant: the table keeps only the newest record (a cache with eviction)
create_evicting(cid) ==
  IF \E i \in 1..Len(ledger) : ledger[i].cid = cid
  THEN ledger
  ELSE << [cid |-> cid, record_time |-> now] >>

create(cid) ==
  IF \E i \in 1..Len(ledger) : ledger[i].cid = cid
  THEN ledger
  ELSE Append(ledger, [cid |-> cid, record_time |-> now])

\* ------------------------------------------------------------ selector
\* `keyword in bulletin.title` (line 167): Python substring containment
\* variant: title.startswith(keyword)
IsSubstring_prefix(k, t) == Len(k) <= Len(t) /\ SubSeq(t, 1, Len(k)) = k

IsSubstring(k, t) ==
  \E i \in 1..(Len(t) - Len(k) + 1) : SubSeq(t, i, i + Len(k) - 1) = k

\* line 167: any(keyword in bulletin.title for keyword in keywords_to_check)
Qualifies(b) == \E j \in 1..Len(keywords) : IsSubstring(keywords[j], b.title)

\* sorted(.., key=lambda x: x.updated_at, reverse=True), line 166: a stable
\* sort, equal keys keep their order in the list
\* variant: a sort that puts a later item before an earlier one of the same key
RECURSIVE InsertDesc_unstable(_, _)
InsertDesc_unstable(x, s) ==
  IF s = << >> THEN << x >>
  ELSE IF Head(s).updated_at > x.updated_at
       THEN << Head(s) >> \o InsertDesc_unstable(x, Tail(s))
       ELSE << x >> \o s

RECURSIVE InsertDesc(_, _)
InsertDesc(x, s) ==
  IF s = << >> THEN << x >>
  ELSE IF Head(s).updated_at >= x.updated_at
       THEN << Head(s) >> \o InsertDesc(x, Tail(s))
       ELSE << x >> \o s

RECURSIVE SortInto(_, _)
SortInto(s, acc) ==
  IF s = << >> THEN acc ELSE SortInto(Tail(s), InsertDesc(Head(s), acc))

Sorted == SortInto(feed, << >>)

\* force_latest: False from execute_bulletin_push (line 271), True from
\* manual_check (line 261)
\* variant: manual_check calls without force_latest
force_latest_off(p) == FALSE

force_latest(p) == p = "manual"

\* variant: line 171 leaves the loop (break) at an item that has a record
RECURSIVE NextCandidate_break(_, _)
NextCandidate_break(i, force) ==
  IF i > Len(Sorted) THEN 0
  ELSE IF ~Qualifies(Sorted[i]) THEN NextCandidate_break(i + 1, force)
  ELSE IF ~force /\ get_or_none(Sorted[i].cid) THEN 0
  ELSE i

\* the for loop of lines 166-171, resumed at position i of the sorted list:
\* the position of the next item that passes both filters, 0 when the loop
\* runs out
RECURSIVE NextCandidate(_, _)
NextCandidate(i, force) ==
  IF i > Len(Sorted) THEN 0
  ELSE IF ~Qualifies(Sorted[i]) THEN NextCandidate(i + 1, force)
  ELSE IF ~force /\ get_or_none(Sorted[i].cid) THEN NextCandidate(i + 1, force)
  ELSE i

\* ---------------------------------------------------- coroutine steps
None == [cid |-> 0]

\* the coroutine p runs to its end
Finish(p) ==
  /\ pc' = [pc EXCEPT ![p] = "idle"]
  /\ cur' = [cur EXCEPT ![p] = 0]

\* the outcomes of BulletinRecord.create(cid=..): the row is written, or the
\* call raises: always when a row with this cid exists (unique=True, line
\* 109), and possibly when the storage is faulty and has not failed yet
WriteOutcomes(cid) ==
  IF \E i \in 1..Len(ledger) : ledger[i].cid = cid THEN {FALSE}
  ELSE IF storage = "faulty" /\ ~raised THEN BOOLEAN
  ELSE {TRUE}

\* the last statement of execute_bulletin_push, line 287 or 303: no handler
\* encloses it, in execute_bulletin_push or in timed_check_scheduler (line
\* 323), so an exception of create leaves timed_check_scheduler
Record(p, cid) ==
  /\ \E wrote \in WriteOutcomes(cid) :
       /\ ledger' = IF wrote THEN create(cid) ELSE ledger
       /\ raised' = (raised \/ ~wrote)
  /\ Finish(p)

\* the entry of `dispatches` for a run of lines 282-303 by coroutine p
Dispatch(p, cid, target_groups, push_tasks) ==
  [cycle |-> cycle, by |-> p, cid |-> cid, targets |-> target_groups,
   wanted |-> adminEnabled, started |-> push_tasks, succeeded |-> {}]

\* variant: line 287 missing, no record when there is no destination
ExecutePush_unclaimed_when_empty(p, res) ==
  IF get_or_none(res.cid)
  THEN Finish(p) /\ UNCHANGED << ledger, dispatches, inflight, raised >>
  ELSE LET target_groups == get_enabled_groups
           push_tasks == { g \in target_groups : g[2] \in AvailableBots }
       IN /\ dispatches' =
               Append(dispatches, Dispatch(p, res.cid, target_groups, push_tasks))
          /\ IF target_groups = {}
             THEN Finish(p) /\ UNCHANGED << ledger, inflight, raised >>
             ELSE IF push_tasks = {}
             THEN Record(p, res.cid) /\ UNCHANGED inflight
             ELSE /\ pc' = [pc EXCEPT ![p] = "wait"]
                  /\ inflight' = [inflight EXCEPT ![p] = push_tasks]
                  /\ UNCHANGED << cur, ledger, raised >>

\* execute_bulletin_push after get_latest_bulletin returned (chain, cid),
\* lines 276-300, up to its end or to the await of line 300.  With no target
\* group (lines 284-288) or no task (line 299) the record is written at once;
\* otherwise one task per group with an available instance is created (line
\* 294) and the coroutine waits.  (With JsonBound = FALSE get_enabled_groups
\* is always empty and only the branch of lines 284-288 is ever taken.)
\* `wanted` notes adminEnabled at the time of the dispatch.
ExecutePush(p, res) ==
  IF get_or_none(res.cid)                               \* lines 278-279
  THEN Finish(p) /\ UNCHANGED << ledger, dispatches, inflight, raised >>
  ELSE LET target_groups == get_enabled_groups
           push_tasks == { g \in target_groups : g[2] \in AvailableBots }
       IN /\ dispatches' =
               Append(dispatches, Dispatch(p, res.cid, target_groups, push_tasks))
          /\ IF push_tasks = {}
             THEN Record(p, res.cid) /\ UNCHANGED inflight
             ELSE /\ pc' = [pc EXCEPT ![p] = "wait"]
                  /\ inflight' = [inflight EXCEPT ![p] = push_tasks]
                  /\ UNCHANGED << cur, ledger, raised >>

\* variant: the manual trigger records the item it shows
ManualReply_claiming(res) ==
  /\ lastReply' = [to |-> manualData,
                   kind |-> IF res = None THEN "nomatch" ELSE "artifact",
                   cid |-> res.cid]
  /\ manualData' = NoChannel
  /\ ledger' = IF res = None THEN ledger ELSE create(res.cid)
  /\ UNCHANGED dispatches

\* manual_check after get_latest_bulletin returned, lines 263-267
ManualReply(res) ==
  /\ lastReply' = [to |-> manualData,
                   kind |-> IF res = None THEN "nomatch" ELSE "artifact",
                   cid |-> res.cid]
  /\ manualData' = NoChannel
  /\ UNCHANGED << ledger, dispatches >>

\* get_latest_bulletin returns res to its caller, which runs on to its end
\* or to its next await
Return(p, res) ==
  IF p \in Scheds
  THEN /\ IF res = None                          \* lines 273-274
          THEN Finish(p) /\ UNCHANGED << ledger, dispatches, inflight, raised >>
          ELSE ExecutePush(p, res)
       /\ UNCHANGED << lastReply, manualData >>
  ELSE /\ Finish(p)
       /\ ManualReply(res)
       /\ UNCHANGED << inflight, raised >>

\* get_latest_bulletin up to its first await, lines 141-157
Enter(p) ==
  IF keywords = << >>
  THEN Return(p, None)
  ELSE /\ pc' = [pc EXCEPT ![p] = "list"]
       /\ UNCHANGED << cur, ledger, dispatches, lastReply, manualData,
                       inflight, raised >>

\* variant: the scheduled cycle records the item as soon as it is selected
Loop_claiming(p, i) ==
  LET next == NextCandidate(i, force_latest(p))
  IN IF next = 0
     THEN Return(p, None)
     ELSE /\ pc' = [pc EXCEPT ![p] = "detail"]
          /\ cur' = [cur EXCEPT ![p] = next]
          /\ ledger' = IF p \in Scheds THEN create(Sorted[next].cid) ELSE ledger
          /\ UNCHANGED << dispatches, lastReply, manualData, inflight, raised >>

\* the for loop of lines 166-173 from position i up to the detail request
Loop(p, i) ==
  LET next == NextCandidate(i, force_latest(p))
  IN IF next = 0
     THEN Return(p, None)                           \* line 223
     ELSE /\ pc' = [pc EXCEPT ![p] = "detail"]
          /\ cur' = [cur EXCEPT ![p] = next]
          /\ UNCHANGED << ledger, dispatches, lastReply, manualData,
                          inflight, raised >>

\* bot.get_config('checkInterval', 120), line 314: the default stands in
\* for a key the configuration does not hold
get_config_checkInterval ==
  IF checkInterval.present THEN checkInterval
  ELSE [present |-> TRUE, numeric |-> TRUE, value |-> DefaultInterval]

\* variant: no try around int(), a value int() rejects counts as 0
interval_seconds_unguarded == get_config_checkInterval.value

\* lines 313-317: int() of the setting, 120 when int() raises ValueError or
\* TypeError
interval_seconds ==
  IF get_config_checkInterval.numeric
  THEN get_config_checkInterval.value
  ELSE DefaultInterval

\* ------------------------------------------------------------- actions
\* variant: line 322 missing, the time of the check is not kept
timed_check_scheduler_unstamped(p, t) ==
  IF enablePush /\ t - last_check_timestamp >= interval_seconds
  THEN /\ cycle' = cycle + 1
       /\ Enter(p)
       /\ UNCHANGED last_check_timestamp
  ELSE UNCHANGED << last_check_timestamp, cycle, pc, cur, ledger,
                    dispatches, lastReply, manualData, inflight, raised >>

\* timed_check_scheduler, lines 308-323, run by coroutine p at time t, up to
\* the first await of the cycle
timed_check_scheduler(p, t) ==
  IF enablePush /\ t - last_check_timestamp >= interval_seconds
  THEN /\ last_check_timestamp' = t
       /\ cycle' = cycle + 1
       /\ Enter(p)
  ELSE UNCHANGED << last_check_timestamp, cycle, pc, cur, ledger,
                    dispatches, lastReply, manualData, inflight, raised >>

\* A tick of @bot.timed_task(each=60), line 306, TickPeriod after the one
\* before, taken while no cycle is under way: cycles follow one another.
Tick ==
  /\ \A p \in Scheds : pc[p] = "idle"
  /\ now < StartTime + MaxTicks * TickPeriod
  /\ now' = now + TickPeriod
  /\ timed_check_scheduler("sched", now')
  /\ UNCHANGED << feed, keywords, enablePush, checkInterval, pushGroupsFile,
                  adminEnabled, manualRuns, toggles, storage >>

\* A tick that comes while the cycle of an earlier tick is still suspended at
\* an await.  The timer belongs to the framework; timed_check_scheduler
\* itself has no guard against a second invocation but the comparison of line
\* 320.  The second invocation runs as the coroutine that is free.
TickDuringCycle ==
  /\ \E p \in Scheds : pc[p] # "idle"
  /\ now < StartTime + MaxTicks * TickPeriod
  /\ now' = now + TickPeriod
  /\ \E p \in Scheds :
       /\ pc[p] = "idle"
       /\ timed_check_scheduler(p, now')
  /\ UNCHANGED << feed, keywords, enablePush, checkInterval, pushGroupsFile,
                  adminEnabled, manualRuns, toggles, storage >>

\* A tick once the clock has reached `now`: from here on time is kept
\* relative to the latest tick.  Instead of `now` moving on by TickPeriod,
\* last_check_timestamp moves back by TickPeriod (not below 0: `now` is at
\* least the longest interval, so the comparison of line 320 is not
\* affected); a cycle that starts sets it to the time of the tick, which is
\* `now`.  The count `cycle` stops here.
TickOn ==
  /\ \A p \in Scheds : pc[p] = "idle"
  /\ IF enablePush /\ (now + TickPeriod) - last_check_timestamp >= interval_seconds
     THEN /\ last_check_timestamp' = now
          /\ Enter("sched")
     ELSE /\ last_check_timestamp' =
               IF last_check_timestamp >= TickPeriod
               THEN last_check_timestamp - TickPeriod
               ELSE 0
          /\ UNCHANGED << pc, cur, ledger, dispatches, lastReply, manualData,
                          inflight, raised >>
  /\ UNCHANGED << feed, keywords, enablePush, checkInterval, now, cycle,
                  pushGroupsFile, adminEnabled, manualRuns, toggles, storage >>

Frame ==
  UNCHANGED << feed, keywords, enablePush, checkInterval, now,
               last_check_timestamp, cycle, pushGroupsFile, adminEnabled,
               manualRuns, toggles, storage >>

\* the list request answers, lines 157-166
ListResponse(p) ==
  /\ pc[p] = "list"
  /\ \E ok \in BOOLEAN : IF ok THEN Loop(p, 1) ELSE Return(p, None)
  /\ Frame

\* variant: a failed detail request ends the loop (return instead of continue)
DetailResponse_break(p) ==
  /\ pc[p] = "detail"
  /\ \E ok \in BOOLEAN :
       IF ok
       THEN /\ pc' = [pc EXCEPT ![p] = "banner"]
            /\ UNCHANGED << cur, ledger, dispatches, lastReply, manualData,
                              inflight, raised >>
       ELSE Return(p, None)
  /\ Frame

\* the detail request answers, lines 178-182
DetailResponse(p) ==
  /\ pc[p] = "detail"
  /\ \E ok \in BOOLEAN :
       IF ok
       THEN /\ pc' = [pc EXCEPT ![p] = "banner"]
            /\ UNCHANGED << cur, ledger, dispatches, lastReply, manualData,
                              inflight, raised >>
       ELSE Loop(p, cur[p] + 1)                     \* continue, lines 181, 221
  /\ Frame

\* the banner request answers and the item is rendered, lines 184-217; a
\* failed banner gives the empty banner string, a failed render continues
\* the loop (lines 219-221)
BannerResponse(p) ==
  /\ pc[p] = "banner"
  /\ \E bannerOk \in BOOLEAN, renderOk \in BOOLEAN :
       IF renderOk
       THEN Return(p, [cid |-> Sorted[cur[p]].cid])
       ELSE Loop(p, cur[p] + 1)
  /\ Frame

\* the entry of `dispatches` that coroutine p appended before it waited
Waiting(p) ==
  CHOOSE i \in 1..Len(dispatches) :
    /\ dispatches[i].by = p
    /\ \A j \in (i + 1)..Len(dispatches) : dispatches[j].by # p

\* a task of line 294 ends: instance.send_message returned or raised; the
\* exception stays in the task (asyncio.wait, line 300, does not raise it)
SendResponse(p) ==
  /\ pc[p] = "wait"
  /\ \E g \in inflight[p], ok \in BOOLEAN :
       /\ inflight' = [inflight EXCEPT ![p] = @ \ {g}]
       /\ dispatches' =
            [dispatches EXCEPT ![Waiting(p)].succeeded = IF ok THEN @ \cup {g} ELSE @]
  /\ UNCHANGED << pc, cur, ledger, lastReply, manualData, raised >>
  /\ Frame

\* asyncio.wait returns once every task has ended, lines 300-303
WaitReturn(p) ==
  /\ pc[p] = "wait"
  /\ inflight[p] = {}
  /\ Record(p, Sorted[cur[p]].cid)
  /\ UNCHANGED << dispatches, lastReply, manualData, inflight >>
  /\ Frame

\* manual_check, lines 257-259: the "checking" notice
ManualCheck(data) ==
  /\ pc["manual"] = "idle"
  /\ manualRuns < MaxManual
  /\ manualRuns' = manualRuns + 1
  /\ manualData' = data.channel_id
  /\ lastReply' = [to |-> data.channel_id, kind |-> "checking", cid |-> 0]
  /\ pc' = [pc EXCEPT !["manual"] = "begin"]
  /\ UNCHANGED << feed, keywords, enablePush, checkInterval, now,
                  last_check_timestamp, cycle, cur, ledger, pushGroupsFile,
                  adminEnabled, dispatches, toggles, inflight, storage,
                  raised >>

\* manual_check, line 261: the call of get_latest_bulletin
ManualBegin ==
  /\ pc["manual"] = "begin"
  /\ Enter("manual")
  /\ Frame

Reply(data, kind) == [to |-> data.channel_id, kind |-> kind, cid |-> 0]

\* variant: lines 228-229 missing, the issuer is not checked
EnablePush_unchecked(data) ==
  /\ toggles < MaxToggles
  /\ toggles' = toggles + 1
  /\ adminEnabled' = adminEnabled \cup { <<data.channel_id, data.appid>> }
  /\ IF <<data.channel_id, data.appid>> \in get_enabled_groups
     THEN /\ lastReply' = Reply(data, "already")
          /\ UNCHANGED pushGroupsFile
     ELSE LET saved == add_push_group(data.channel_id, data.appid)
          IN /\ pushGroupsFile' = saved.file
             /\ lastReply' = Reply(data, IF saved.ok THEN "enabled" ELSE "enable_error")
  /\ UNCHANGED << feed, keywords, enablePush, checkInterval, now,
                  last_check_timestamp, cycle, pc, cur, ledger, dispatches,
                  manualData, manualRuns, inflight, storage, raised >>

\* enable_push, lines 226-242
EnablePush(data) ==
  /\ toggles < MaxToggles
  /\ toggles' = toggles + 1
  /\ IF ~data.is_admin
     THEN /\ lastReply' = Reply(data, "permission")
          /\ UNCHANGED << pushGroupsFile, adminEnabled >>
     ELSE /\ adminEnabled' = adminEnabled \cup { <<data.channel_id, data.appid>> }
          /\ IF <<data.channel_id, data.appid>> \in get_enabled_groups
             THEN /\ lastReply' = Reply(data, "already")
                  /\ UNCHANGED pushGroupsFile
             ELSE LET saved == add_push_group(data.channel_id, data.appid)
                  IN /\ pushGroupsFile' = saved.file
                     /\ lastReply' = Reply(data, IF saved.ok THEN "enabled" ELSE "enable_error")
  /\ UNCHANGED << feed, keywords, enablePush, checkInterval, now,
                  last_check_timestamp, cycle, pc, cur, ledger, dispatches,
                  manualData, manualRuns, inflight, storage, raised >>

\* disable_push, lines 244-254
DisablePush(data) ==
  /\ toggles < MaxToggles
  /\ toggles' = toggles + 1
  /\ IF ~data.is_admin
     THEN /\ lastReply' = Reply(data, "permission")
          /\ UNCHANGED << pushGroupsFile, adminEnabled >>
     ELSE LET saved == remove_push_group(data.channel_id, data.appid)
          IN /\ adminEnabled' = adminEnabled \ { <<data.channel_id, data.appid>> }
             /\ pushGroupsFile' = saved.file
             /\ lastReply' = Reply(data, IF saved.ok THEN "disabled" ELSE "disable_error")
  /\ UNCHANGED << feed, keywords, enablePush, checkInterval, now,
                  last_check_timestamp, cycle, pc, cur, ledger, dispatches,
                  manualData, manualRuns, inflight, storage, raised >>

\* ------------------------------------------------------- specifications
\* the state after the plugin is loaded, at time t, with the setting
\* checkInterval drawn from `intervals` and the storage from `storages`
Loaded(intervals, storages, t) ==
  /\ feed \in FeedsOver(SystemTimes, MaxFeedLen)
  /\ keywords \in SystemKeywordLists
  /\ enablePush \in BOOLEAN
  /\ checkInterval \in intervals
  /\ now = t
  /\ last_check_timestamp = 0
  /\ cycle = 0
  /\ pc = [p \in Coroutines |-> "idle"]
  /\ cur = [p \in Coroutines |-> 0]
  /\ ledger = << >>
  /\ pushGroupsFile = NoFile
  /\ adminEnabled = {}
  /\ dispatches = << >>
  /\ lastReply = NoReply
  /\ manualData = NoChannel
  /\ manualRuns = 0
  /\ toggles = 0
  /\ inflight = [p \in Scheds |-> {}]
  /\ storage \in storages
  /\ raised = FALSE

Init == Loaded(CheckIntervals, {"sound"}, StartTime)

\* the scheduled cycle and the steps of get_latest_bulletin
Cycle ==
  \/ Tick
  \/ \E p \in Procs : ListResponse(p)
  \/ \E p \in Procs : DetailResponse(p)
  \/ \E p \in Procs : BannerResponse(p)

\* the manual trigger
Manual ==
  \/ \E data \in Messages : ManualCheck(data)
  \/ ManualBegin

\* the toggle commands
Toggle ==
  \/ \E data \in Messages : EnablePush(data)
  \/ \E data \in Messages : DisablePush(data)

\* the fan-out of lines 290-303
Fanout ==
  \/ \E p \in Scheds : SendResponse(p)
  \/ \E p \in Scheds : WaitReturn(p)

Next == Cycle \/ Manual \/ Toggle \/ Fanout

Spec == Init /\ [][Next]_vars

\* The toggle commands and the manual trigger share no state: the commands
\* read and write push_groups.json, manual_check reads the feed and the
\* keywords.  Each is checked next to the scheduled cycle.
NextPush == Cycle \/ Toggle

SpecPush == Init /\ [][NextPush]_vars

NextManual == Cycle \/ Manual

SpecManual == Init /\ [][NextManual]_vars

\* The selector on arbitrary inputs: any feed, keyword list and persisted
\* ledger (the table outlives a restart, the globals do not), with one
\* coroutine about to call get_latest_bulletin: the scheduler at its last
\* tick, or a manual_check.
RECURSIVE LedgerOf(_)
LedgerOf(S) ==
  IF S = {} THEN << >>
  ELSE LET c == CHOOSE x \in S : \A y \in S : x <= y
       IN << [cid |-> c, record_time |-> StartTime] >> \o LedgerOf(S \ {c})

LastTick == StartTime + MaxTicks * TickPeriod

InitSelect ==
  /\ feed \in FeedsOver(Times, MaxSelectLen)
  /\ keywords \in KeywordLists
  /\ enablePush = TRUE
  /\ checkInterval \in { c \in CheckIntervals : c.value = TickPeriod }
  /\ \E S \in SUBSET Cids(feed) : ledger = LedgerOf(S)
  /\ \E p \in Procs :
       /\ now = IF p = "sched" THEN LastTick - TickPeriod ELSE LastTick
       /\ manualRuns = IF p = "manual" THEN MaxManual - 1 ELSE MaxManual
  /\ last_check_timestamp = 0
  /\ cycle = 0
  /\ pc = [p \in Coroutines |-> "idle"]
  /\ cur = [p \in Coroutines |-> 0]
  /\ pushGroupsFile = NoFile
  /\ adminEnabled = {}
  /\ dispatches = << >>
  /\ lastReply = NoReply
  /\ manualData = NoChannel
  /\ toggles = 0
  /\ inflight = [p \in Scheds |-> {}]
  /\ storage = "sound"
  /\ raised = FALSE

NextSelect ==
  \/ Tick
  \/ \E data \in Messages : ManualCheck(data)
  \/ ManualBegin
  \/ \E p \in Procs : ListResponse(p)

SpecSelect == InitSelect /\ [][NextSelect]_vars

\* The scheduler under every kind of checkInterval setting.
InitSched == Loaded(ConfiguredIntervals, {"sound"}, StartTime)

SpecSched == InitSched /\ [][Cycle]_vars

\* The scheduler running on without end, with sound or faulty storage.  The
\* timer fires every TickPeriod, and every request ends: the list and detail
\* requests after at most 10 seconds (lines 157, 178), the banner request
\* after at most 15 (line 188).
InitLive == Loaded(CheckIntervals, {"sound", "faulty"}, StartTime)

NextLive ==
  \/ TickOn
  \/ ListResponse("sched")
  \/ DetailResponse("sched")
  \/ BannerResponse("sched")

SpecLive ==
  /\ InitLive
  /\ [][NextLive]_vars
  /\ WF_vars(TickOn)
  /\ WF_vars(ListResponse("sched"))
  /\ WF_vars(DetailResponse("sched"))
  /\ WF_vars(BannerResponse("sched"))

\* The scheduled cycle when the timer may fire during a slow cycle: up to
\* two invocations of timed_check_scheduler are under way at a time.
NextOverlap ==
  \/ Tick
  \/ TickDuringCycle
  \/ \E p \in Scheds : ListResponse(p)
  \/ \E p \in Scheds : DetailResponse(p)
  \/ \E p \in Scheds : BannerResponse(p)

SpecOverlap == Init /\ [][NextOverlap]_vars

\* ------------------------------------------------- vocabulary of claims
S == "sched"
M == "manual"

LedgerCids == { ledger[i].cid : i \in 1..Len(ledger) }

\* t = a \o k \o b for some a and b
Contains(t, k) ==
  \E i \in 0..Len(t), j \in 0..Len(t) :
    /\ i + Len(k) + j = Len(t)
    /\ t = SubSeq(t, 1, i) \o k \o SubSeq(t, Len(t) - j + 1, Len(t))

HasKeyword(b) == \E n \in 1..Len(keywords) : Contains(b.title, keywords[n])

\* feed[i] comes before feed[j] newest first, ties in feed order
Before(i, j) ==
  \/ feed[i].updated_at > feed[j].updated_at
  \/ feed[i].updated_at = feed[j].updated_at /\ i < j

\* feed[j] passes the filters of coroutine p
Eligible(j, p) == HasKeyword(feed[j]) /\ (p = M \/ feed[j].cid \notin LedgerCids)

\* the item coroutine p is working on
Picked(p) == Sorted[cur[p]]

\* C3: the item the selector picks is a qualifying item with the largest
\* updatedAt and, among the qualifying items with that updatedAt, the first
\* in the original feed order.
C3_NewestFirstStable ==
  \A p \in Procs :
    pc[p] = "detail" =>
      LET k == Picked(p).cid
      IN /\ k \in 1..Len(feed)
         /\ feed[k] = Picked(p)
         /\ Eligible(k, p)
         /\ \A j \in 1..Len(feed) : Eligible(j, p) /\ j # k => Before(k, j)

\* a three-item feed where the picked item shares its updatedAt with a later
\* qualifying item
C3_Witness ==
  \E p \in Procs :
    /\ pc[p] = "detail"
    /\ Len(feed) = 3
    /\ \E j \in 1..Len(feed) :
         /\ j > Picked(p).cid
         /\ Eligible(j, p)
         /\ feed[j].updated_at = Picked(p).updated_at

\* C5: an item is picked only if its title contains a configured keyword as
\* a substring, and no item that contains one (and passes the ledger filter)
\* is passed over for an older one; with an empty keyword list no coroutine
\* gets as far as the list request, the manual trigger shows nothing, and
\* the scheduled cycle ends having dispatched nothing and claimed nothing.
C5_KeywordSubstring ==
  /\ \A p \in Procs :
       pc[p] = "detail" =>
         /\ HasKeyword(Picked(p))
         /\ \A j \in 1..Len(feed) :
              Eligible(j, p) => j = Picked(p).cid \/ Before(Picked(p).cid, j)
  /\ keywords = << >> =>
       /\ \A p \in Procs : pc[p] \in {"idle", "begin"}
       /\ lastReply.kind # "artifact"
       /\ dispatches = << >>
       /\ \A i \in 1..Len(ledger) : ledger[i].record_time = StartTime

\* a scheduled cycle has run with an empty keyword list against a feed
\* whose items are all unclaimed
C5_Witness ==
  /\ keywords = << >>
  /\ cycle = 1
  /\ pc[S] = "idle"
  /\ Len(feed) = 3
  /\ ledger = << >>

\* C6: in normal mode an item whose id is in the ledger is never picked; in
\* force mode the picked item is the newest keyword-matching item of the
\* feed whether or not its id is in the ledger.
C6_ForceIgnoresLedger ==
  /\ pc[S] = "detail" => Picked(S).cid \notin LedgerCids
  /\ pc[M] = "detail" =>
       /\ HasKeyword(Picked(M))
       /\ \A j \in 1..Len(feed) :
            HasKeyword(feed[j]) => j = Picked(M).cid \/ Before(Picked(M).cid, j)

\* force mode picked an item that has a record
C6_Witness == pc[M] = "detail" /\ Picked(M).cid \in LedgerCids

\* --------------------------------------------- steps of the scheduled cycle
\* the detail request of the picked item failed: the loop moved on or ran out
SchedDetailFailed ==
  /\ pc[S] = "detail"
  /\ pc'[S] = "idle" \/ (pc'[S] = "detail" /\ cur'[S] # cur[S])

\* the render of the picked item failed
SchedRenderFailed ==
  /\ pc[S] = "banner"
  /\ pc'[S] = "detail" \/ (pc'[S] = "idle" /\ dispatches' = dispatches)

\* the list request failed, or no item of the list passed the filters
SchedListEnded == pc[S] = "list" /\ pc'[S] = "idle"

\* positions after the picked item whose items pass the filters of the cycle
OlderEligible ==
  { i \in (cur[S] + 1)..Len(Sorted) :
      HasKeyword(Sorted[i]) /\ Sorted[i].cid \notin LedgerCids }

\* C1: no announcement id is dispatched (handed to the fan-out part of
\* execute_bulletin_push) in more than one scheduled cycle.
C1_DispatchedOnce ==
  \A i, j \in 1..Len(dispatches) :
    i # j => dispatches[i].cid # dispatches[j].cid

\* the newest item was dispatched by one cycle and a later cycle, which met
\* it again in the list, dispatched the next one
C1_Witness ==
  /\ Len(dispatches) = 2
  /\ dispatches[1].cid = Sorted[1].cid
  /\ dispatches[1].cycle < dispatches[2].cycle

C2_LedgerInv ==
  /\ \A i, j \in 1..Len(ledger) : i # j => ledger[i].cid # ledger[j].cid
  /\ Len(ledger) <= cycle

C2_Append ==
  \/ ledger' = ledger
  \/ /\ Len(ledger') = Len(ledger) + 1
     /\ SubSeq(ledger', 1, Len(ledger)) = ledger
     /\ cycle' = cycle
     /\ pc[S] # "idle"
     /\ pc'[S] = "idle"

\* C2: the ledger never holds two records with the same id and never more
\* records than cycles were started; a step either leaves the ledger as it is
\* or appends one record, and it appends only as the step that ends a
\* scheduled cycle, so a cycle creates at most one record and no record is
\* ever updated or deleted.
C2_OneRecordPerCycle == [](C2_LedgerInv) /\ [][C2_Append]_vars

\* three cycles against a two-item feed have left two records
C2_Witness == Len(ledger) = 2 /\ cycle = 3 /\ pc[S] = "idle"

\* C4 as stated: when the detail fetch or the render of the picked item
\* fails, the cycle ends there with nothing dispatched and nothing claimed.
C4_CycleEndsOnFailure ==
  [][ (SchedDetailFailed \/ SchedRenderFailed) =>
        (pc'[S] = "idle" /\ ledger' = ledger /\ dispatches' = dispatches) ]_vars

C4_OnePerCycle ==
  \A i, j \in 1..Len(dispatches) :
    i # j => dispatches[i].cycle # dispatches[j].cycle

C4_FailureContinues ==
  (SchedDetailFailed \/ SchedRenderFailed) =>
    /\ ledger' = ledger
    /\ dispatches' = dispatches
    /\ IF OlderEligible = {}
       THEN pc'[S] = "idle"
       ELSE /\ pc'[S] = "detail"
            /\ cur'[S] \in OlderEligible
            /\ \A i \in OlderEligible : cur'[S] <= i

C4_DispatchesPicked ==
  dispatches' # dispatches =>
    /\ pc[S] = "banner"
    /\ Len(dispatches') = Len(dispatches) + 1
    /\ SubSeq(dispatches', 1, Len(dispatches)) = dispatches
    /\ dispatches'[Len(dispatches')].cid = Picked(S).cid
    /\ dispatches'[Len(dispatches')].cycle = cycle

\* C4 amended: a cycle dispatches and claims at most one item, the item it
\* was working on when the render succeeded; when the detail fetch or the
\* render of an item fails, that step dispatches and claims nothing and the
\* scan goes on with the next older qualifying unclaimed item, the cycle
\* ending with nothing dispatched only when no such item is left.
C4_Amended ==
  /\ [](C4_OnePerCycle)
  /\ [][C4_FailureContinues]_vars
  /\ [][C4_DispatchesPicked]_vars

\* the first cycle dispatched the second-newest item while the newest
\* qualifying item is still unclaimed: the newest failed and the scan went on
C4_Witness ==
  /\ Len(feed) >= 2
  /\ Len(dispatches) >= 1
  /\ dispatches[1].cid = Sorted[2].cid
  /\ HasKeyword(Sorted[1])
  /\ Sorted[1].cid \notin LedgerCids

\* a step of manual_check
ManualStep == pc'[M] # pc[M] \/ cur'[M] # cur[M]

C7_ManualFrame ==
  ManualStep =>
    /\ ledger' = ledger
    /\ pushGroupsFile' = pushGroupsFile
    /\ last_check_timestamp' = last_check_timestamp
    /\ dispatches' = dispatches
    /\ lastReply' # lastReply =>
         /\ lastReply'.to = (IF pc[M] = "idle" THEN manualData' ELSE manualData)
         /\ lastReply'.kind \in {"checking", "artifact", "nomatch"}
    /\ (pc[M] # "idle" /\ pc'[M] = "idle") =>
         /\ lastReply'.to = manualData
         /\ lastReply'.kind \in {"artifact", "nomatch"}
         /\ lastReply'.kind = "artifact" =>
               \E j \in 1..Len(feed) :
                 feed[j].cid = lastReply'.cid /\ HasKeyword(feed[j])

\* C7: no step of manual_check writes a record, changes push_groups.json or
\* last_check_timestamp, or dispatches to subscribers; every message it
\* sends goes to the channel of the issuer, and the run ends with the
\* rendered artifact of a keyword-matching item or the no-match message.
C7_ManualChangesNothing == [][C7_ManualFrame]_vars

\* a manual trigger has shown an item that a scheduled cycle dispatched too
C7_Witness ==
  /\ lastReply.kind = "artifact"
  /\ pc[M] = "idle"
  /\ \E i \in 1..Len(dispatches) : dispatches[i].cid = lastReply.cid

\* C8: a cycle that dispatches an item starts a send to every destination an
\* admin has enabled (and not disabled since) whose endpoint is available,
\* whatever the outcome of the other sends, and records the item once the
\* sends have ended.
C8_FanoutReachesEnabled ==
  \A i \in 1..Len(dispatches) :
    /\ dispatches[i].started = { g \in dispatches[i].wanted : g[2] \in AvailableBots }
    /\ dispatches[i].succeeded \subseteq dispatches[i].started
    /\ pc[dispatches[i].by] = "idle" => dispatches[i].cid \in LedgerCids

\* C9: an item dispatched while the list of enabled destinations was empty
\* had no send started and has a record, and the scheduled cycle never works
\* on an item that was dispatched before.
C9_ZeroDestinationClaim ==
  /\ \A i \in 1..Len(dispatches) :
       dispatches[i].targets = {} =>
         dispatches[i].started = {} /\ dispatches[i].cid \in LedgerCids
  /\ pc[S] \in {"detail", "banner"} =>
       \A i \in 1..Len(dispatches) : dispatches[i].cid # Picked(S).cid

\* an item was claimed with no destination, an admin issued enable after
\* that, and a later cycle is working on another item
C9_Witness ==
  /\ Len(dispatches) = 1
  /\ dispatches[1].targets = {}
  /\ dispatches[1].wanted = {}
  /\ adminEnabled # {}
  /\ pc[S] = "detail"
  /\ cycle > dispatches[1].cycle
  /\ HasKeyword(feed[dispatches[1].cid])

C10_FailureClaimsNothing ==
  (SchedListEnded \/ SchedDetailFailed \/ SchedRenderFailed) =>
    /\ ledger' = ledger
    /\ dispatches' = dispatches
    /\ pc[S] \in {"detail", "banner"} =>
         \A i \in 1..Len(ledger') : ledger'[i].cid # Picked(S).cid

C10_ClaimsOnlyRendered ==
  ledger' # ledger =>
    /\ pc[S] = "banner"
    /\ ledger' = Append(ledger, [cid |-> Picked(S).cid, record_time |-> now])

\* C10: a step in which the list fetch, the detail fetch or the render fails
\* writes no record and dispatches nothing, and leaves the failed item
\* without a record; a record is written only for the item whose render
\* succeeded.
C10_NoClaimBeforeDispatch ==
  [][C10_FailureClaimsNothing]_vars /\ [][C10_ClaimsOnlyRendered]_vars

\* the newest item failed in the cycle that dispatched the second-newest,
\* and a later cycle has picked the newest again
C10_Witness ==
  /\ Len(feed) >= 2
  /\ Len(dispatches) = 1
  /\ dispatches[1].cid = Sorted[2].cid
  /\ cycle > dispatches[1].cycle
  /\ pc[S] = "detail"
  /\ cur[S] = 1

\* --------------------------------------------------------- the scheduler
\* coroutine p is inside a cycle
InCycle(p) == pc[p] # "idle"

\* C11: at no time are two cycles in progress, also when a tick comes while
\* an earlier cycle is still running, and no announcement id is dispatched
\* twice.
C11_NoOverlappingCycles ==
  /\ ~(InCycle("sched") /\ InCycle("sched2"))
  /\ \A i, j \in 1..Len(dispatches) :
       i # j => dispatches[i].cid # dispatches[j].cid

\* a tick of the timer, and a tick that starts a cycle
TickStep == now' # now
CycleStarts == cycle' # cycle
Elapsed == now' - last_check_timestamp

\* the interval in force: the configured number, 120 without one
IntervalInForce ==
  IF checkInterval.present /\ checkInterval.numeric
  THEN checkInterval.value
  ELSE 120

C12_TickDecides ==
  TickStep =>
    /\ CycleStarts <=> (enablePush /\ Elapsed >= IntervalInForce)
    /\ CycleStarts =>
         /\ cycle' = cycle + 1
         /\ last_check_timestamp' = now'
         /\ pc[S] = "idle"
         /\ pc'[S] = "list" \/ (keywords = << >> /\ pc'[S] = "idle")
         /\ cycle > 0 => now' - last_check_timestamp >= IntervalInForce
    /\ ~CycleStarts =>
         UNCHANGED << last_check_timestamp, ledger, pushGroupsFile, pc, cur,
                      dispatches, inflight >>

C12_OnlyTicksStart ==
  (CycleStarts \/ last_check_timestamp' # last_check_timestamp) => TickStep

\* last_check_timestamp is the time of the latest cycle start, and the
\* records, each written at the time its cycle started, are an interval apart
C12_StartsApart ==
  /\ last_check_timestamp <= now
  /\ cycle = 0 <=> last_check_timestamp = 0
  /\ \A i, j \in 1..Len(ledger) :
       i < j => ledger[j].record_time - ledger[i].record_time >= IntervalInForce

\* C12: a tick starts a cycle exactly when push is enabled and the time
\* since last_check_timestamp is at least the interval; it then sets
\* last_check_timestamp to the time of the tick in the step that issues the
\* first request of the cycle.  Any other tick changes neither
\* last_check_timestamp nor the ledger nor push_groups.json and issues no
\* request.  Only ticks start cycles, so two consecutive cycle starts are at
\* least one interval apart, whatever became of the earlier cycle.
C12_IntervalGate ==
  /\ [][C12_TickDecides]_vars
  /\ [][C12_OnlyTicksStart]_vars
  /\ [](C12_StartsApart)

\* with an interval of two tick periods the first cycle failed, the next
\* tick was passed over and the third tick started the second cycle
C12_Witness ==
  /\ IntervalInForce = 2 * TickPeriod
  /\ cycle = 2
  /\ last_check_timestamp = StartTime + 3 * TickPeriod
  /\ \E i \in 1..Len(feed) : HasKeyword(feed[i])
  /\ dispatches = << >>
  /\ pc[S] = "list"

\* C13: with a checkInterval that is not a number, or with none configured,
\* a tick starts a cycle exactly when push is enabled and 120 seconds have
\* passed since last_check_timestamp, and raises nothing; with a number
\* configured, exactly when that number of seconds has passed.
C13_IntervalClamp ==
  [][ TickStep =>
        /\ raised' = raised
        /\ checkInterval \in {NonNumericInterval, MissingInterval} =>
             (CycleStarts <=> (enablePush /\ Elapsed >= 120))
        /\ \A c \in CheckIntervals :
             checkInterval = c => (CycleStarts <=> (enablePush /\ Elapsed >= c.value))
    ]_vars

\* under the setting "abc" a tick 60 seconds after a cycle start was passed
\* over and the tick 120 seconds after it started the next cycle
C13_Witness ==
  /\ checkInterval = NonNumericInterval
  /\ cycle = 2
  /\ last_check_timestamp = StartTime + 3 * TickPeriod
  /\ ~raised

\* ------------------------------------------------------ the toggle commands
\* the destination a command is about: the channel and the instance that
\* serves it
Key(data) == << data.channel_id, data.appid >>

\* the rows push_groups.json holds for destination g
RowsOf(file, g) == { r \in file.rows : r.channel_id = g[1] /\ r.bot_id = g[2] }

\* the destinations a reader of the file enumerates as enabled
EnabledIn(file) ==
  IF file.exists /\ file.valid
  THEN { << r.channel_id, r.bot_id >> : r \in { q \in file.rows : q.enabled } }
  ELSE {}

C14_EnabledHeld ==
  \A g \in adminEnabled :
    /\ Cardinality(RowsOf(pushGroupsFile, g)) = 1
    /\ \A r \in RowsOf(pushGroupsFile, g) : r.enabled
    /\ g \in get_enabled_groups

C14_SecondEnable ==
  \A data \in Messages :
    (data.is_admin /\ Key(data) \in adminEnabled /\ EnablePush(data)) =>
      /\ pushGroupsFile' = pushGroupsFile
      /\ lastReply'.kind = "already"

\* C14: a destination whose last admin command was enable has exactly one
\* row in the store, with enabled = true, and is enumerated as enabled; an
\* admin's enable of such a destination leaves the store as it is and is
\* answered with the already-enabled message.
C14_IdempotentEnable == [](C14_EnabledHeld) /\ [][C14_SecondEnable]_vars

C15_Rejected ==
  \A data \in Messages :
    (~data.is_admin /\ (EnablePush(data) \/ DisablePush(data))) =>
      /\ lastReply'.to = data.channel_id
      /\ lastReply'.kind = "permission"
      /\ pushGroupsFile' = pushGroupsFile

\* C15: an enable or disable command of an issuer who is not an admin is
\* answered with the permission message and leaves push_groups.json exactly
\* as it was.
C15_NonAdminRejected == [][C15_Rejected]_vars

\* an admin's enable has touched the file, and a command of a non-admin that
\* came after it was rejected
C15_Witness ==
  /\ pushGroupsFile.exists
  /\ adminEnabled # {}
  /\ lastReply.kind = "permission"

C19_Disable ==
  \A data \in Messages :
    (data.is_admin /\ DisablePush(data)) =>
      IF Key(data) \in adminEnabled \/ RowsOf(pushGroupsFile, Key(data)) # {}
      THEN /\ Cardinality(RowsOf(pushGroupsFile', Key(data))) = 1
           /\ \A r \in RowsOf(pushGroupsFile', Key(data)) : ~r.enabled
           /\ Key(data) \notin EnabledIn(pushGroupsFile')
      ELSE pushGroupsFile' = pushGroupsFile

C19_EnableAgain ==
  \A data \in Messages :
    (/\ data.is_admin
     /\ \E r \in RowsOf(pushGroupsFile, Key(data)) : ~r.enabled
     /\ EnablePush(data)) =>
      /\ Cardinality(RowsOf(pushGroupsFile', Key(data))) = 1
      /\ Key(data) \in EnabledIn(pushGroupsFile')

\* C19: an admin's disable of an enabled destination keeps its row and sets
\* enabled = false, so that the destination is no longer enumerated; an
\* admin's enable of a destination whose row has enabled = false leaves one
\* row with enabled = true; a disable of a destination without a row leaves
\* the store unchanged.
C19_LogicalDelete == [][C19_Disable]_vars /\ [][C19_EnableAgain]_vars

\* ------------------------------------------------------------- progress
\* C16: no exception leaves timed_check_scheduler, whatever the outcome of
\* the requests, the render and the write of the record, and a cycle that
\* has started comes to its end, the scheduler waiting for the next tick.
C16_EveryCycleEnds ==
  /\ [](~raised)
  /\ (InCycle(S) ~> ~InCycle(S))

\* every item of the feed whose title holds a keyword has a record
AllClaimed ==
  \A i \in 1..Len(feed) : HasKeyword(feed[i]) => feed[i].cid \in LedgerCids

\* steps in which the list request, the detail request, the render succeed
ListSucceeds ==
  ListResponse(S) /\ (pc'[S] = "detail" \/ OlderEligible = {})
DetailSucceeds == DetailResponse(S) /\ pc'[S] = "banner"
RenderSucceeds == BannerResponse(S) /\ dispatches' # dispatches

\* every fetch and every render succeeds in the end
EventuallySucceed ==
  /\ SF_vars(ListSucceeds)
  /\ SF_vars(DetailSucceeds)
  /\ SF_vars(RenderSucceeds)

C18_OnePerCycle ==
  ledger' # ledger =>
    /\ Len(ledger') = Len(ledger) + 1
    /\ InCycle(S) /\ ~InCycle(S)'

C18_FailureLeavesUnclaimed ==
  (SchedListEnded \/ SchedDetailFailed \/ SchedRenderFailed) => ledger' = ledger

\* C18: with push enabled and a keyword configured, if every fetch and
\* render succeeds in the end (and the ticks keep coming), every item of the
\* feed that holds a keyword gets its record in the end; a failed step
\* leaves its item without a record, for a later cycle to pick again, and
\* no cycle writes more than one record.
C18_BacklogDrains ==
  /\ EventuallySucceed => ((enablePush /\ keywords # << >>) ~> AllClaimed)
  /\ [][C18_OnePerCycle]_vars
  /\ [][C18_FailureLeavesUnclaimed]_vars

\* both items of the feed hold a keyword and have their records, the older
\* one first: the cycle of the newer one failed and a later cycle picked it
\* again
C18_Witness ==
  /\ Len(feed) = 2
  /\ AllClaimed
  /\ Len(ledger) = 2
  /\ ledger[1].cid = Sorted[2].cid

\* -------------------------------------------------------------- fan-out
\* the destinations of a set that can be reached: their instance is available
Reachable(gs) == { g \in gs : g[2] \in AvailableBots }

\* the latest entry of `dispatches` after the step
Latest == dispatches'[Len(dispatches')]

C17_NoRecordInFlight ==
  \A p \in Scheds :
    inflight[p] # {} => Sorted[cur[p]].cid \notin LedgerCids

C17_RecordAfterSends ==
  (ledger' # ledger /\ Reachable(Latest.wanted) # {}) =>
    /\ Latest.started # {}
    /\ \A p \in Scheds : inflight'[p] = {}
    /\ Latest.cid \in { ledger'[i].cid : i \in 1..Len(ledger') }

====
